---- MODULE Spec2Model ----
(***************************************************************************)
(* Model of src/TgBot/tg_gift_analyst_bot.py: the process-wide STATE       *)
(* snapshot and its JSON file, the command handlers, the per-user watch    *)
(* jobs of the job queue, watch_tick, and the rule engine of               *)
(* analyze_portfolio.                                                      *)
(*                                                                         *)
(* Python values are modelled as follows.                                  *)
(*   - an Optional scalar is a sequence of length 0 or 1: None is <<>>,    *)
(*     the value v is <<v>>;                                               *)
(*   - a dict is a function whose DOMAIN is its key set; d.get(k) is       *)
(*     a DOMAIN test;                                                      *)
(*   - a coroutine is a task record whose pc names the await it is         *)
(*     suspended at; one action runs the code between two awaits.          *)
(***************************************************************************)
EXTENDS Integers, Sequences, FiniteSets, TLC

\* ------------------------------------------------------------------ bounds
\* longest cached portfolio drawn from a state file
MaxLen == 2
\* the clock and transfer dates range over 1..MaxTime
MaxTime == 2
\* updates (commands, events) dispatched in one run
MaxUpdates == 2
\* firings of watch jobs in one run
MaxTicks == 2
\* page size of get_business_account_gifts (limit=50 in the code), scaled down
PageLimit == 1

\* ------------------------------------------------------------ value domain
None == <<>>
Some(v) == <<v>>

Users == {"u1", "u2"}
BcIds == {"bcA", "bcB"}
Times == 1..MaxTime

\* update.effective_chat.id of a private chat with the user
ChatOf(u) == IF u = "u1" THEN 101 ELSE 102

\* Star amounts the platform reports.
StarVals == {0, 100}

\* datetime.isoformat(): the string of a timestamp.
IsoFormat(t) == [kind |-> "iso", t |-> t]
\* a string that datetime.fromisoformat rejects
BadDate == [kind |-> "bad", t |-> 0]
\* datetime.fromisoformat(s).timestamp(): Some(t), or None for ValueError.
FromIsoFormat(s) == IF s.kind = "iso" THEN Some(s.t) ELSE None

\* ------------------------------------------------------------- gift records
\* The item dict fetch_portfolio builds for a regular owned gift.
RegularItem(gid, conv, upg) ==
    [class |-> "regular", gift_id |-> gid,
     gift_title |-> IF gid = None THEN "Gift" ELSE gid[1],
     convert_star_count |-> conv, can_be_upgraded |-> upg,
     next_transfer_date |-> None]

\* The item dict fetch_portfolio builds for a unique owned gift.
UniqueItem(gid, ntd) ==
    [class |-> "unique", gift_id |-> gid,
     gift_title |-> IF gid = None THEN "Unique" ELSE gid[1],
     convert_star_count |-> None, can_be_upgraded |-> None,
     next_transfer_date |-> ntd]

\* A catalog entry as build_catalog stores it (the fields the rules read).
CatalogEntry(gid, up) == [id |-> gid, title |-> "Gift", upgrade_star_count |-> up]

\* MarketQuote
MarketQuote(gid, floor) == [gift_id |-> gid, floor_stars |-> floor]

\* ---------------------------------------------------------------- analysis
\* Suggestion(title, details). kind and gift_title stand for the title string,
\* stars for the amount the details string cites (None when it cites none);
\* item is the index in portfolio["gifts"] of the gift the rule fired for
\* (0 for the placeholder) and is not part of the Python object.
Suggestion(kind, gift_title, stars, item) ==
    [kind |-> kind, gift_title |-> gift_title, stars |-> stars, item |-> item]

Placeholder == Suggestion("placeholder", "", None, 0)

\* the percentage added to the star threshold
MinProfitStarsPct(settings, u) ==
    IF u \in DOMAIN settings
    THEN settings[u].min_profit_stars + settings[u].min_profit_pct ELSE 0

\* settings = STATE.settings.get(uid, {...defaults...});
\* min_profit_stars = int(settings.get("min_profit_stars", 0))
MinProfitStars(settings, u) ==
    IF u \in DOMAIN settings THEN settings[u].min_profit_stars ELSE 0

\* conv >= min_profit_stars, mutated to a strict comparison
ConvertAppliesStrict(conv, min) == conv # None /\ conv[1] > min

\* isinstance(conv, int) and conv >= min_profit_stars
ConvertApplies(conv, min) == conv # None /\ conv[1] >= min

\* g = catalog.get(r.get("gift_id")); up = g.get("upgrade_star_count") if g else None
UpgradeCost(catalog, gid) ==
    IF gid # None /\ gid[1] \in DOMAIN catalog
    THEN catalog[gid[1]].upgrade_star_count ELSE None

\* the upgrade branch taken without looking at can_be_upgraded
UpgradeAppliesAlways(r, catalog) == UpgradeCost(catalog, r.gift_id) # None

\* elif r.get("can_be_upgraded"): ... if isinstance(up, int)
UpgradeApplies(r, catalog) ==
    /\ r.can_be_upgraded = Some(TRUE)
    /\ UpgradeCost(catalog, r.gift_id) # None

\* One pass of the loop over regulars: zero or one suggestion.
RegularRule(i, r, catalog, min) ==
    IF ConvertApplies(r.convert_star_count, min)
    THEN <<Suggestion("convert", r.gift_title, r.convert_star_count, i)>>
    ELSE IF UpgradeApplies(r, catalog)
         THEN <<Suggestion("upgrade", r.gift_title, UpgradeCost(catalog, r.gift_id), i)>>
         ELSE <<>>

\* the date test with the comparison reversed
CanTransferReversed(ntd, now) ==
    IF ntd # None
    THEN LET ts == FromIsoFormat(ntd[1])
         IN IF ts # None THEN ts[1] >= now ELSE TRUE
    ELSE TRUE

\* can_transfer: True unless next_transfer_date parses to a time after now.
CanTransfer(ntd, now) ==
    IF ntd # None
    THEN LET ts == FromIsoFormat(ntd[1])
         IN IF ts # None THEN ts[1] <= now ELSE TRUE
    ELSE TRUE

\* q = quotes.get(u["gift_id"]) if u.get("gift_id") else None
\* floor = q.floor_stars if q else None
FloorOf(quotes, gid) ==
    IF gid # None /\ gid[1] \in DOMAIN quotes
    THEN quotes[gid[1]].floor_stars ELSE None

\* if floor: details += ... fmt_stars(floor)   (truthiness: None and 0 are false)
FloorCited(floor) == IF floor # None /\ floor[1] # 0 THEN floor ELSE None

\* One pass of the loop over uniques: zero or one suggestion.
UniqueRule(i, g, quotes, now) ==
    IF CanTransfer(g.next_transfer_date, now)
    THEN <<Suggestion("ready", g.gift_title, FloorCited(FloorOf(quotes, g.gift_id)), i)>>
    ELSE <<>>

RECURSIVE RegularLoop(_, _, _, _)
RegularLoop(gifts, i, catalog, min) ==
    IF i > Len(gifts) THEN <<>>
    ELSE (IF gifts[i].class = "regular"
          THEN RegularRule(i, gifts[i], catalog, min) ELSE <<>>)
         \o RegularLoop(gifts, i + 1, catalog, min)

RECURSIVE UniqueLoop(_, _, _, _)
UniqueLoop(gifts, i, quotes, now) ==
    IF i > Len(gifts) THEN <<>>
    ELSE (IF gifts[i].class = "unique"
          THEN UniqueRule(i, gifts[i], quotes, now) ELSE <<>>)
         \o UniqueLoop(gifts, i + 1, quotes, now)

\* the two loops in the other order
RulesOnlyUniqueFirst(catalog, gifts, quotes, min, now) ==
    UniqueLoop(gifts, 1, quotes, now) \o RegularLoop(gifts, 1, catalog, min)

\* the rule engine without the final placeholder
RulesOnly(catalog, gifts, quotes, min, now) ==
    RegularLoop(gifts, 1, catalog, min) \o UniqueLoop(gifts, 1, quotes, now)

\* the placeholder never appended
WithPlaceholderNever(s) == s

\* the placeholder appended whatever the rules produced
WithPlaceholderAlways(s) == s \o <<Placeholder>>

\* if not suggestions: suggestions.append(placeholder)
WithPlaceholder(s) == IF s = <<>> THEN <<Placeholder>> ELSE s

\* Lines 208-259 of analyze_portfolio: the suggestions for the given inputs.
Rules(catalog, gifts, quotes, min, now) ==
    WithPlaceholder(RulesOnly(catalog, gifts, quotes, min, now))

\* unique_ids = [g["gift_id"] for g in gifts if class == "unique" and gift_id]
UniqueIds(gifts) ==
    {gifts[i].gift_id[1] : i \in {j \in 1..Len(gifts) :
        gifts[j].class = "unique" /\ gifts[j].gift_id # None}}

\* ----------------------------------------------------------------- platform
\* An owned gift as get_business_account_gifts returns it; ntd is the
\* next_transfer_date as a timestamp (None when absent).
OwnedRegular(gid, conv, upg) ==
    [type |-> "regular", gift_id |-> gid, convert_star_count |-> conv,
     can_be_upgraded |-> upg, next_transfer_date |-> None]
OwnedUnique(gid, ntd) ==
    [type |-> "unique", gift_id |-> gid, convert_star_count |-> None,
     can_be_upgraded |-> None, next_transfer_date |-> ntd]

\* The loop body of fetch_portfolio: the item dict of one owned gift.
ItemOf(og) ==
    IF og.type = "regular"
    THEN RegularItem(og.gift_id, og.convert_star_count, og.can_be_upgraded)
    ELSE UniqueItem(og.gift_id,
                    IF og.next_transfer_date # None
                    THEN Some(IsoFormat(og.next_transfer_date[1])) ELSE None)

\* The gifts of the business account behind each connection id.
AccountOf(bc) ==
    IF bc = "bcA"
    THEN <<OwnedRegular(Some("g1"), Some(100), Some(FALSE))>>
    ELSE <<OwnedRegular(Some("g1"), None, Some(TRUE)), OwnedUnique(Some("g1"), None)>>

\* Gift lists get_available_gifts may return.
PlatformCatalogs ==
    { <<CatalogEntry("g1", Some(100))>>, <<CatalogEntry("g1", None)>> }

\* STATE.last_catalog = {g["id"]: g for g in catalog}
CatalogDict(list) ==
    [gid \in {list[i].id : i \in 1..Len(list)} |->
        (CHOOSE e \in {list[i] : i \in 1..Len(list)} : e.id = gid)]

\* One response of get_business_account_gifts(bc, offset, limit): the page,
\* next_offset (None on the last page) and total_count.
GiftsPage(gifts, offset) ==
    LET from == IF offset = None THEN 1 ELSE offset[1]
        to == IF from + PageLimit - 1 < Len(gifts) THEN from + PageLimit - 1 ELSE Len(gifts)
    IN [gifts |-> SubSeq(gifts, from, to),
        next_offset |-> IF to < Len(gifts) THEN Some(to + 1) ELSE None,
        total_count |-> Len(gifts)]

\* [ItemOf(og) for og in resp.gifts]
ItemsOf(page) == [i \in 1..Len(page) |-> ItemOf(page[i])]

\* A quote provider: it answers each requested id with a MarketQuote whose
\* floor_stars is floor, or (omits) with no quote at all.
\* fetch_market_quotes_example is StubProvider: MarketQuote(gift_id=gid),
\* floor_stars None, for every id; the docstring makes it the place where
\* another source of quotes is plugged in.
StubProvider == [omits |-> FALSE, floor |-> None]
Providers ==
    {[omits |-> TRUE, floor |-> None]}
    \cup {[omits |-> FALSE, floor |-> f] : f \in {None} \cup {Some(v) : v \in StarVals}}

\* quotes = await fetch_market_quotes_example(unique_ids)
FetchQuotes(prov, ids) ==
    IF prov.omits THEN [gid \in {} |-> MarketQuote(gid, None)]
    ELSE [gid \in ids |-> MarketQuote(gid, prov.floor)]

\* -------------------------------------------------------------- persistence
\* class State(BaseModel) with its defaults
EmptyDict == [x \in {} |-> None]
EmptyState ==
    [connections |-> EmptyDict, chats |-> EmptyDict, settings |-> EmptyDict,
     last_catalog |-> EmptyDict, last_portfolio |-> EmptyDict]

\* JSON values of the typed maps
JsonNull == [json |-> "null", n |-> 0]
JsonNumber(n) == [json |-> "number", n |-> n]
JsonOfOpt(v) == IF v = None THEN JsonNull ELSE JsonNumber(v[1])

\* model_dump_json: the JSON document of a snapshot. The values of
\* last_catalog and last_portfolio are JSON-native and are written as they are.
Dump(S) ==
    [connections |-> S.connections,
     chats |-> [u \in DOMAIN S.chats |-> JsonOfOpt(S.chats[u])],
     settings |-> [u \in DOMAIN S.settings |->
                    [min_profit_stars |-> JsonNumber(S.settings[u].min_profit_stars),
                     min_profit_pct |-> JsonNumber(S.settings[u].min_profit_pct)]],
     last_catalog |-> S.last_catalog,
     last_portfolio |-> S.last_portfolio]

\* cls(**json.load(f)): chats is Dict[str, int], so a null chat id is a
\* ValidationError; the other maps accept every JSON value.
LoadOk(doc) == \A u \in DOMAIN doc.chats : doc.chats[u].json = "number"

\* The snapshot State.load builds from a valid document.
LoadValue(doc) ==
    [connections |-> doc.connections,
     chats |-> [u \in DOMAIN doc.chats |-> Some(doc.chats[u].n)],
     settings |-> [u \in DOMAIN doc.settings |->
                    [min_profit_stars |-> doc.settings[u].min_profit_stars.n,
                     min_profit_pct |-> doc.settings[u].min_profit_pct.n]],
     last_catalog |-> doc.last_catalog,
     last_portfolio |-> doc.last_portfolio]

\* d.get(k) for a dict of plain values
Get(d, k) == IF k \in DOMAIN d THEN Some(d[k]) ELSE None
\* d.get(k) for a dict whose values are Optional
GetOpt(d, k) == IF k \in DOMAIN d THEN d[k] ELSE None
\* d[k] = v
Put(d, k, v) == [x \in DOMAIN d \cup {k} |-> IF x = k THEN v ELSE d[x]]

\* -------------------------------------------------------------------- state
VARIABLES
    state,      \* the in-memory snapshot (the module-level STATE object)
    disk,       \* the state file: [exists, doc]
    provider,   \* the quote provider the bot is configured with
    clock,      \* time.time()
    jobs,       \* job queue: the scheduled repeating jobs, [id, name]
    task,       \* coroutines: "h" is the update handler, each user has a tick slot
    updates,    \* number of updates dispatched
    ticks       \* number of job firings

vars == <<state, disk, provider, clock, jobs, task, updates, ticks>>

TaskIds == {"h"} \cup Users

\* The locals of a coroutine that awaits, kept after it returns until the
\* slot is used again (a handler that never awaits leaves the slot idle).
\* src tells where the analysed portfolio came from ("cache":
\* STATE.last_portfolio, "fetch": this task's fetch_portfolio, "noconn": the
\* empty result of fetch_portfolio without a connection); failed names the
\* call that raised; sent lists the messages the task delivered; total is
\* the total_count of the portfolio fetch_portfolio returned.
NewTask(op, u) ==
    [op |-> op, user |-> u, pc |-> "done", bc |-> None, offset |-> None,
     all_gifts |-> <<>>, catalog |-> EmptyDict, gifts |-> <<>>, src |-> "none",
     quotes |-> EmptyDict, min |-> 0, now |-> 0, suggestions |-> <<>>, chat |-> None,
     sent |-> <<>>, outcome |-> "ok", failed |-> "none", total |-> 0]

IdleTask(tid) == [NewTask("idle", IF tid = "h" THEN "u1" ELSE tid) EXCEPT !.pc = "idle"]

\* a coroutine slot is free when no coroutine is suspended in it
Free(tid) == task[tid].pc \in {"idle", "done"}

\* a save that writes nothing of the snapshot
SaveStale(S) == [exists |-> TRUE, doc |-> Dump(EmptyState)]

\* self.save(): the file is replaced by the dump of the snapshot
Save(S) == [exists |-> TRUE, doc |-> Dump(S)]

\* The coroutine returns: the locals of its fetch loop are gone.
Return(t) == [t EXCEPT !.pc = "done", !.bc = None, !.offset = None, !.all_gifts = <<>>]

\* An exception leaves watch_tick uncaught.
TickFailPropagates(t, what) ==
    [Return(t) EXCEPT !.outcome = "raised", !.failed = what]

\* except Exception as e: print(...)  -- the tick ends, the error is swallowed.
TickFail(t, what) ==
    [Return(t) EXCEPT !.outcome = "caught", !.failed = what]

\* A call raises inside coroutine t.
Raise(t, what) ==
    IF t.op = "tick" THEN TickFail(t, what)
    ELSE [Return(t) EXCEPT !.outcome = "raised", !.failed = what]

\* the chat test dropped: a message is sent whatever chat_id is
ChatBoundAlways(chat_id) == TRUE

\* if chat_id:
ChatBound(chat_id) == chat_id # None /\ chat_id[1] # 0

\* Lines 205-261 and the caller's tail: quotes, rules, then the reply of
\* analyze_cmd or the chat test of watch_tick.
Compute(S, t, prov, now) ==
    LET quotes == FetchQuotes(prov, UniqueIds(t.gifts))
        min == MinProfitStars(S.settings, t.user)
        sugg == Rules(t.catalog, t.gifts, quotes, min, now)
        t1 == [t EXCEPT !.quotes = quotes, !.min = min, !.now = now, !.suggestions = sugg]
        chat_id == GetOpt(S.chats, t.user)
    IN IF t.op = "tick" /\ sugg # <<>>
       THEN IF ChatBound(chat_id)
            THEN [t1 EXCEPT !.pc = "send_wait", !.chat = chat_id]
            ELSE Return([t1 EXCEPT !.chat = chat_id])
       ELSE Return(t1)

\* the missing connection replaced by a default one instead of returning
FetchBeginDefault(S, t) ==
    LET bc == Get(S.connections, t.user)
    IN [t EXCEPT !.pc = "gifts_wait", !.bc = IF bc = None THEN Some("bcA") ELSE bc,
                 !.offset = None, !.all_gifts = <<>>]

\* fetch_portfolio up to its first await (lines 148-156).
FetchBegin(S, t) ==
    LET bc == Get(S.connections, t.user)
    IN IF bc = None
       THEN [t EXCEPT !.pc = "fetched", !.gifts = <<>>, !.src = "noconn", !.total = 0]
       ELSE [t EXCEPT !.pc = "gifts_wait", !.bc = bc, !.offset = None, !.all_gifts = <<>>]

\* portfolio = STATE.last_portfolio.get(uid) or await fetch_portfolio(...)
PortfolioPhase(S, t) ==
    IF t.user \in DOMAIN S.last_portfolio
    THEN [t EXCEPT !.pc = "fetched", !.gifts = S.last_portfolio[t.user].gifts, !.src = "cache"]
    ELSE FetchBegin(S, t)

\* catalog = STATE.last_catalog or {...await build_catalog(context)}
CatalogPhase(S, t) ==
    IF DOMAIN S.last_catalog # {}
    THEN PortfolioPhase(S, [t EXCEPT !.catalog = S.last_catalog])
    ELSE [t EXCEPT !.pc = "catalog_wait"]

\* Coroutine t, holding its portfolio (pc "fetched"), runs on to its next
\* await or to its end; a coroutine suspended at an await stays there.
Settle(S, t, prov, now) ==
    IF t.pc # "fetched" THEN t
    ELSE IF t.op = "portfolio" THEN Return(t)
    ELSE Compute(S, t, prov, now)

\* Snapshots an earlier run of the bot left in the state file: u1 connected
\* and bound to its chat, with the catalog and (Cached1) the portfolio cached.
Connected1 ==
    [EmptyState EXCEPT !.connections = Put(EmptyDict, "u1", "bcA"),
                       !.chats = Put(EmptyDict, "u1", Some(ChatOf("u1"))),
                       !.last_catalog = CatalogDict(<<CatalogEntry("g1", Some(100))>>)]
Cached1 ==
    [Connected1 EXCEPT !.last_portfolio = Put(EmptyDict, "u1",
        [total_count |-> 1, gifts |-> ItemsOf(AccountOf("bcA")), ts |-> 1])]
StateFiles == {Connected1, Cached1}

\* STATE = State.load(): the defaults when there is no state file, the
\* validated document otherwise; the job queue starts empty.
InitFrom(files) ==
    /\ \/ /\ disk = [exists |-> FALSE, doc |-> Dump(EmptyState)]
          /\ state = EmptyState
       \/ \E S \in files :
          /\ disk = [exists |-> TRUE, doc |-> Dump(S)]
          /\ LoadOk(disk.doc)
          /\ state = LoadValue(disk.doc)
    /\ jobs = {}
    /\ task = [tid \in TaskIds |-> IdleTask(tid)]
    /\ updates = 0
    /\ ticks = 0

\* The bot as shipped: the stub quote provider. No gift of AccountOf carries
\* a transfer date, so the clock only stamps the cached portfolios.
Init == InitFrom(StateFiles) /\ provider = StubProvider /\ clock = 1

\* ------------------------------------------------------------ the handlers
Dispatch == Free("h") /\ updates < MaxUpdates /\ updates' = updates + 1

\* start / help_cmd
Start(u) ==
    /\ Dispatch
    /\ state' = [state EXCEPT !.chats = Put(state.chats, u, Some(ChatOf(u)))]
    /\ disk' = Save(state')
    /\ task' = [task EXCEPT !["h"] = IdleTask("h")]
    /\ UNCHANGED <<provider, clock, jobs, ticks>>

\* on_business_connection; chat is update.effective_chat, which is None for
\* a business_connection update (the update carries a user and no chat).
\* The final send_message raises when the chat id is None; the snapshot is
\* saved before it either way.
OnBusinessConnection(u, bc, chat) ==
    /\ Dispatch
    /\ LET bound == IF chat # None THEN chat ELSE GetOpt(state.chats, u)
       IN /\ state' = [state EXCEPT !.connections = Put(state.connections, u, bc),
                                    !.chats = Put(state.chats, u, bound)]
    /\ task' = [task EXCEPT !["h"] = IdleTask("h")]
    /\ disk' = Save(state')
    /\ UNCHANGED <<provider, clock, jobs, ticks>>

\* catalog_cmd up to the await inside build_catalog
CatalogCmd(u) ==
    /\ Dispatch
    /\ task' = [task EXCEPT !["h"] = [NewTask("catalog", u) EXCEPT !.pc = "catalog_wait"]]
    /\ UNCHANGED <<state, disk, provider, clock, jobs, ticks>>

\* portfolio_cmd up to the first await of fetch_portfolio
PortfolioCmd(u) ==
    /\ Dispatch
    /\ task' = [task EXCEPT !["h"] =
                  Settle(state, FetchBegin(state, NewTask("portfolio", u)), provider, clock)]
    /\ UNCHANGED <<state, disk, provider, clock, jobs, ticks>>

\* analyze_cmd up to its first await (or to its end when both caches are hit)
AnalyzeCmd(u) ==
    /\ Dispatch
    /\ task' = [task EXCEPT !["h"] =
                  Settle(state, CatalogPhase(state, NewTask("analyze", u)), provider, clock)]
    /\ UNCHANGED <<state, disk, provider, clock, jobs, ticks>>

\* context.args of /watch
WatchArgs == { <<>>, <<"100", "5">>, <<"-5", "-3">>, <<"100", "abc">> }
\* str.isdigit()
IsDigit(tok) == tok \in {"100", "5"}
\* int(tok) for a digit string
IntOf(tok) == IF tok = "100" THEN 100 ELSE 5
\* float(tok): Some(value), or None for ValueError
FloatOf(tok) ==
    IF tok = "100" THEN Some(100) ELSE IF tok = "5" THEN Some(5)
    ELSE IF tok = "-5" THEN Some(0 - 5) ELSE IF tok = "-3" THEN Some(0 - 3) ELSE None

\* min_stars = int(args[0]) if len(args) >= 1 and args[0].isdigit() else 0
MinStarsArg(args) == IF Len(args) >= 1 /\ IsDigit(args[1]) THEN IntOf(args[1]) ELSE 0
\* min_pct = float(args[1]) if len(args) >= 2 else 0.0
MinPctArg(args) == IF Len(args) >= 2 THEN FloatOf(args[2]) ELSE Some(0)

\* every job of the queue removed, whatever its name
CancelAll(q, name) == {}

\* the old jobs left in the queue
CancelNone(q, name) == q

\* for j in get_jobs_by_name(job_name): j.schedule_removal()
CancelJobs(q, name) == {j \in q : j.name # name}

\* the id of a new Job object: one no job of the queue has
FreshId(q) == CHOOSE i \in 1..(Cardinality(q) + 1) :
                /\ \A j \in q : j.id # i
                /\ \A k \in 1..(i - 1) : \E j \in q : j.id = k

\* job_queue.run_repeating(callback=watch_tick, name=job_name, data={user_id});
\* the application is taken to have a job queue
RunRepeating(q, id, name) == q \cup {[id |-> id, name |-> name]}

\* watch_cmd
WatchCmd(u, args) ==
    /\ Dispatch
    /\ IF MinPctArg(args) = None
       THEN UNCHANGED <<state, disk, jobs>>
       ELSE /\ state' = [state EXCEPT !.settings = Put(state.settings, u,
                            [min_profit_stars |-> MinStarsArg(args),
                             min_profit_pct |-> MinPctArg(args)[1]])]
            /\ disk' = Save(state')
            /\ jobs' = RunRepeating(CancelJobs(jobs, u), FreshId(jobs), u)
    /\ task' = [task EXCEPT !["h"] = IdleTask("h")]
    /\ UNCHANGED <<provider, clock, ticks>>

\* ------------------------------------------------------------ the watch job
\* a scheduled job of user u may fire
TickDue(u) == (\E j \in jobs : j.name = u) /\ Free(u)

\* The job queue fires a job of u: watch_tick up to its first await.
TickFire(u) ==
    /\ TickDue(u)
    /\ ticks < MaxTicks
    /\ ticks' = ticks + 1
    /\ task' = [task EXCEPT ![u] =
                  Settle(state, CatalogPhase(state, NewTask("tick", u)), provider, clock)]
    /\ UNCHANGED <<state, disk, provider, clock, jobs, updates>>

\* ------------------------------------------------ completions of the awaits
\* await bot.get_available_gifts() returns resp, or raises
CatalogResp(tid) ==
    /\ task[tid].pc = "catalog_wait"
    /\ \/ /\ task' = [task EXCEPT ![tid] = Raise(task[tid], "catalog")]
          /\ UNCHANGED <<state, disk>>
       \/ \E resp \in PlatformCatalogs :
            /\ state' = [state EXCEPT !.last_catalog = CatalogDict(resp)]
            /\ disk' = Save(state')
            /\ task' = [task EXCEPT ![tid] =
                 IF task[tid].op = "catalog" THEN Return(task[tid])
                 ELSE Settle(state', PortfolioPhase(state',
                                [task[tid] EXCEPT !.catalog = CatalogDict(resp)]),
                             provider, clock)]
    /\ UNCHANGED <<provider, clock, jobs, updates, ticks>>

\* await bot.get_business_account_gifts(...) returns a page, or raises
GiftsResp(tid) ==
    /\ task[tid].pc = "gifts_wait"
    /\ \/ /\ task' = [task EXCEPT ![tid] = Raise(task[tid], "gifts")]
          /\ UNCHANGED <<state, disk>>
       \/ LET t == task[tid]
              resp == GiftsPage(AccountOf(t.bc[1]), t.offset)
              all == t.all_gifts \o ItemsOf(resp.gifts)
          IN IF resp.next_offset # None
             THEN /\ task' = [task EXCEPT ![tid] =
                                [t EXCEPT !.all_gifts = all, !.offset = resp.next_offset]]
                  /\ UNCHANGED <<state, disk>>
             ELSE /\ state' = [state EXCEPT !.last_portfolio =
                        Put(state.last_portfolio, t.user,
                            [total_count |-> resp.total_count, gifts |-> all, ts |-> clock])]
                  /\ disk' = Save(state')
                  /\ task' = [task EXCEPT ![tid] =
                        Settle(state', [t EXCEPT !.pc = "fetched", !.gifts = all, !.src = "fetch",
                                                 !.total = resp.total_count],
                               provider, clock)]
    /\ UNCHANGED <<provider, clock, jobs, updates, ticks>>

\* await context.bot.send_message(chat_id, text) of watch_tick returns, or raises
SendResp(tid) ==
    /\ task[tid].pc = "send_wait"
    /\ \/ task' = [task EXCEPT ![tid] = Raise(task[tid], "send")]
       \/ task' = [task EXCEPT ![tid] =
                    [Return(task[tid]) EXCEPT
                       !.sent = Append(task[tid].sent,
                                  [chat_id |-> task[tid].chat[1], text |-> task[tid].suggestions])]]
    /\ UNCHANGED <<state, disk, provider, clock, jobs, updates, ticks>>

Next ==
    \/ \E u \in Users : Start(u)
    \/ \E u \in Users, bc \in BcIds : OnBusinessConnection(u, bc, None)
    \/ \E u \in Users : CatalogCmd(u)
    \/ \E u \in Users : PortfolioCmd(u)
    \/ \E u \in Users : AnalyzeCmd(u)
    \/ \E u \in Users, args \in WatchArgs : WatchCmd(u, args)
    \/ \E u \in Users : TickFire(u)
    \/ \E tid \in TaskIds : CatalogResp(tid)
    \/ \E tid \in TaskIds : GiftsResp(tid)
    \/ \E tid \in TaskIds : SendResp(tid)

Spec == Init /\ [][Next]_vars

\* --------------------------------------------- the analysis on its inputs
\* Items a cached portfolio may hold: what fetch_portfolio stores for the
\* gifts the platform can report, and a date string fromisoformat rejects.
AnalysisItems ==
    { RegularItem(Some("g1"), None, Some(TRUE)), RegularItem(Some("g1"), None, Some(FALSE)),
      RegularItem(Some("g1"), Some(0), Some(TRUE)),
      RegularItem(Some("g1"), Some(100), Some(TRUE)), RegularItem(Some("g2"), None, Some(TRUE)),
      UniqueItem(Some("g1"), None), UniqueItem(Some("g1"), Some(BadDate)) }
    \cup { UniqueItem(Some("g1"), Some(IsoFormat(t))) : t \in Times }

GiftLists == UNION { [1..n -> AnalysisItems] : n \in 0..MaxLen }

\* State files for the analysis: u1 connected through bcB, any settings, a
\* cached catalog or none, a cached portfolio or none.
AnalysisFiles ==
    { [EmptyState EXCEPT !.connections = Put(EmptyDict, "u1", "bcB"),
                         !.settings = st, !.last_catalog = cat, !.last_portfolio = pf] :
        st \in {EmptyDict} \cup
               { Put(EmptyDict, "u1", [min_profit_stars |-> m, min_profit_pct |-> 0]) :
                   m \in StarVals },
        cat \in { EmptyDict, CatalogDict(<<CatalogEntry("g1", None)>>),
                  CatalogDict(<<CatalogEntry("g1", Some(0))>>) },
        pf \in {EmptyDict} \cup
               { Put(EmptyDict, "u1", [total_count |-> Len(g), gifts |-> g, ts |-> 1]) :
                   g \in GiftLists } }

InitAnalyze == InitFrom(AnalysisFiles) /\ provider \in Providers /\ clock \in Times

NextAnalyze ==
    \/ AnalyzeCmd("u1")
    \/ CatalogResp("h")
    \/ GiftsResp("h")

SpecAnalyze == InitAnalyze /\ [][NextAnalyze]_vars

\* =============================================================== properties
\* The timers of user u.
JobsOf(q, u) == {j \in q : j.name = u}

\* C1: every user has at most one active watch timer, and a /watch that arms
\* a timer for a user leaves none of that user's earlier timers in the queue.
C1_OneTimerPerUser ==
    /\ [](\A u \in Users : Cardinality(JobsOf(jobs, u)) <= 1)
    /\ [][\A u \in Users :
            JobsOf(jobs', u) \ JobsOf(jobs, u) # {}
            => /\ JobsOf(jobs', u) \cap JobsOf(jobs, u) = {}
               /\ Cardinality(JobsOf(jobs', u)) = 1]_vars

\* Two successive /watch of one user: its only timer is the second Job.
C1_Witness ==
    \E u \in Users : jobs = {[id |-> 2, name |-> u]}

\* C2: a tick of a connected user analyses gifts its own fetch returned.
C2_TickRefreshesPortfolio ==
    \A u \in Users :
        task[u].op = "tick" /\ task[u].suggestions # <<>> /\ u \in DOMAIN state.connections
        => task[u].src = "fetch"

\* C3: a call that raises inside a tick ends the tick at once (no retry), the
\* exception is swallowed, and a timer of the user is still due to fire.
C3_TickFailureContained ==
    \A u \in Users :
        /\ task[u].op = "tick" => task[u].outcome # "raised"
        /\ task[u].op = "tick" /\ task[u].failed # "none"
           => task[u].pc = "done" /\ task[u].outcome = "caught" /\ TickDue(u)

\* A tick whose send (resp. fetch) raised.
C3_Witness ==
    \E u \in Users : task[u].op = "tick" /\ task[u].failed = "send"

\* C4: a tick of a user without a chat binding sends nothing and raises nothing.
C4_NoChatNoMessage ==
    \A u \in Users :
        task[u].op = "tick" /\ GetOpt(state.chats, u) = None
        => task[u].sent = <<>> /\ task[u].pc # "send_wait" /\ task[u].outcome # "raised"

\* A finished tick that produced suggestions for a user without binding.
C4_Witness ==
    \E u \in Users :
        /\ task[u].op = "tick" /\ task[u].pc = "done" /\ task[u].suggestions # <<>>
        /\ GetOpt(state.chats, u) = None

\* the coroutines that have run the rules
Analysed == {tid \in TaskIds : task[tid].op \in {"analyze", "tick"} /\ task[tid].suggestions # <<>>}
\* the positions of the suggestions made for item i
SuggFor(t, i) == {k \in 1..Len(t.suggestions) : t.suggestions[k].item = i}
Regulars(t) == {i \in 1..Len(t.gifts) : t.gifts[i].class = "regular"}
Uniques(t) == {i \in 1..Len(t.gifts) : t.gifts[i].class = "unique"}
\* convertStarCount present and >= minProfitStars
ConvertCase(t, i) ==
    t.gifts[i].convert_star_count # None /\ t.gifts[i].convert_star_count[1] >= t.min
\* upgradable with a catalog entry that has an upgrade cost
UpgradeCase(t, i) ==
    /\ t.gifts[i].can_be_upgraded = Some(TRUE)
    /\ t.gifts[i].gift_id # None
    /\ t.gifts[i].gift_id[1] \in DOMAIN t.catalog
    /\ t.catalog[t.gifts[i].gift_id[1]].upgrade_star_count # None
\* nextTransferDate absent, unparseable, or not after the current time
ReadyCase(t, i) ==
    \/ t.gifts[i].next_transfer_date = None
    \/ t.gifts[i].next_transfer_date[1].kind = "bad"
    \/ t.gifts[i].next_transfer_date[1].t <= t.now

C6_UpgradeRule ==
    \A tid \in Analysed : \A i \in Regulars(task[tid]) :
        ~ConvertCase(task[tid], i)
        => IF UpgradeCase(task[tid], i)
           THEN /\ Cardinality(SuggFor(task[tid], i)) = 1
                /\ \A k \in SuggFor(task[tid], i) :
                     /\ task[tid].suggestions[k].kind = "upgrade"
                     /\ task[tid].suggestions[k].stars =
                          task[tid].catalog[task[tid].gifts[i].gift_id[1]].upgrade_star_count
           ELSE SuggFor(task[tid], i) = {}

\* One analysis with an upgrade suggestion for a gift below the threshold and
\* none for a gift that is not upgradable.
C6_Witness ==
    \E tid \in Analysed : \E i, j \in Regulars(task[tid]) :
        /\ ~ConvertCase(task[tid], i) /\ UpgradeCase(task[tid], i)
        /\ task[tid].gifts[i].convert_star_count # None
        /\ ~ConvertCase(task[tid], j) /\ ~UpgradeCase(task[tid], j)
        /\ task[tid].gifts[j].can_be_upgraded = Some(FALSE)

\* C7: a unique gift gets a ready-to-sell suggestion exactly when its transfer
\* date is absent, unparseable or not in the future.
C7_ReadyRule ==
    \A tid \in Analysed : \A i \in Uniques(task[tid]) :
        /\ Cardinality(SuggFor(task[tid], i)) <= 1
        /\ (\E k \in SuggFor(task[tid], i) : task[tid].suggestions[k].kind = "ready")
           <=> ReadyCase(task[tid], i)

\* One analysis of a gift transferable exactly now and a gift with a future date.
C7_Witness ==
    \E tid \in Analysed : \E i, j \in Uniques(task[tid]) :
        /\ task[tid].gifts[i].next_transfer_date # None
        /\ task[tid].gifts[i].next_transfer_date[1].kind = "iso"
        /\ task[tid].gifts[i].next_transfer_date[1].t = task[tid].now
        /\ task[tid].gifts[j].next_transfer_date # None
        /\ task[tid].gifts[j].next_transfer_date[1].kind = "iso"
        /\ task[tid].gifts[j].next_transfer_date[1].t > task[tid].now

\* some rule fires for some item
SomeRuleFires(t) ==
    \/ \E i \in Regulars(t) : ConvertCase(t, i) \/ UpgradeCase(t, i)
    \/ \E i \in Uniques(t) : ReadyCase(t, i)
Placeholders(t) == {k \in 1..Len(t.suggestions) : t.suggestions[k].kind = "placeholder"}

C10_RoundTrip ==
    /\ LoadOk(Dump(state))
    /\ LoadValue(Dump(state)) = state

\* C11: at every await and at the end of every handler and tick the state
\* file holds the dump of the in-memory snapshot (and while there is no file
\* the snapshot is the default one).
C11_SavedAfterEachMutation ==
    /\ disk.doc = Dump(state)
    /\ ~disk.exists => state = EmptyState

\* A portfolio fetch suspended at its await after the connection of u2 was
\* recorded: the file already holds that connection.
C11_Witness ==
    /\ \E tid \in TaskIds : task[tid].pc = "gifts_wait" /\ task[tid].user = "u2"
    /\ disk.exists /\ "u2" \in DOMAIN disk.doc.connections

\* C12: a portfolio fetch stores its result only while the connection id it
\* read before paginating is still the user's connection id.
C12_WritesSerialized ==
    [][\A tid \in TaskIds :
          /\ task[tid].pc = "gifts_wait"
          /\ task'[tid].pc # "gifts_wait"
          /\ task'[tid].failed # "gifts"
          => task[tid].bc = Get(state.connections, task[tid].user)]_vars

\* C13: the analysis, run by /analyze or by a tick, never waits for a
\* platform call and no step of it changes the snapshot.
C13_AnalyzeNoSideEffects ==
    /\ [](\A tid \in TaskIds :
            task[tid].op \in {"analyze", "tick"}
            => task[tid].pc \notin {"catalog_wait", "gifts_wait"})
    /\ [][\A tid \in TaskIds :
            /\ task[tid].op \in {"analyze", "tick"}
            /\ task'[tid] # task[tid]
            /\ task'[tid].op = task[tid].op
            => state' = state]_vars

\* C14: a portfolio fetch for a user without a connection never reaches the
\* platform call, returns no gifts and total count 0 without raising and
\* without touching the cached portfolios (nor any of the snapshot, unless the
\* same step stored a catalog); an analysis that took that result yields
\* exactly the placeholder.
C14_NoConnectionEmptyResult ==
    /\ [](\A tid \in TaskIds :
            /\ task[tid].pc = "gifts_wait" => task[tid].user \in DOMAIN state.connections
            /\ task[tid].src = "noconn"
               => /\ task[tid].gifts = <<>> /\ task[tid].total = 0
                  /\ task[tid].failed # "gifts"
                  /\ task[tid].op # "tick" => task[tid].outcome = "ok"
                  /\ task[tid].op \in {"analyze", "tick"}
                     => task[tid].suggestions = <<Placeholder>>)
    /\ [][\A tid \in TaskIds :
            task'[tid].src = "noconn" /\ task'[tid] # task[tid]
            /\ task[tid].pc \notin {"fetched", "send_wait"}
            => /\ state'.last_portfolio = state.last_portfolio
               /\ task[tid].pc # "catalog_wait" => state' = state]_vars

\* /analyze of a user who never connected, answered with the placeholder.
C14_Witness ==
    \E tid \in TaskIds :
        /\ task[tid].op = "analyze" /\ task[tid].src = "noconn"
        /\ task[tid].user \notin DOMAIN state.connections
        /\ task[tid].suggestions = <<Placeholder>>

\* C15: stored settings are never negative, and a /watch whose arguments are
\* rejected changes neither the snapshot nor the timers.
C15_SettingsNonNegative ==
    /\ [](\A u \in DOMAIN state.settings :
            /\ state.settings[u].min_profit_stars >= 0
            /\ state.settings[u].min_profit_pct >= 0)
    /\ [][\A u \in Users, args \in WatchArgs :
            WatchCmd(u, args) /\ MinPctArg(args) = None
            => state' = state /\ jobs' = jobs]_vars

\* the class of the item suggestion k of t was made for
ClassOfSugg(t, k) == t.gifts[t.suggestions[k].item].class
\* pairs of positions k1 < k2 of suggestions made for items
SuggPairs(t) ==
    {pr \in (1..Len(t.suggestions)) \X (1..Len(t.suggestions)) :
        /\ pr[1] < pr[2]
        /\ t.suggestions[pr[1]].item # 0 /\ t.suggestions[pr[2]].item # 0}

\* C16 as stated: the suggestions are in the order of their items in the
\* portfolio, whatever the classes of the items.
C16_InputOrder ==
    \A tid \in Analysed : \A pr \in SuggPairs(task[tid]) :
        task[tid].suggestions[pr[1]].item < task[tid].suggestions[pr[2]].item

\* C16 amended: the suggestions for regular items come first and those for
\* unique items after them, each group in the order of its items in the
\* portfolio.
C16_GroupedOrder ==
    \A tid \in Analysed : \A pr \in SuggPairs(task[tid]) :
        IF ClassOfSugg(task[tid], pr[1]) = ClassOfSugg(task[tid], pr[2])
        THEN task[tid].suggestions[pr[1]].item < task[tid].suggestions[pr[2]].item
        ELSE /\ ClassOfSugg(task[tid], pr[1]) = "regular"
             /\ ClassOfSugg(task[tid], pr[2]) = "unique"

\* A portfolio with a unique gift before a regular one, both with a suggestion.
C16_Witness ==
    \E tid \in Analysed :
        /\ Len(task[tid].gifts) = 2
        /\ task[tid].gifts[1].class = "unique" /\ task[tid].gifts[2].class = "regular"
        /\ SuggPairs(task[tid]) # {}

\* the percentages /watch can store
PctVals == {MinPctArg(a)[1] : a \in {x \in WatchArgs : MinPctArg(x) # None}}
\* coroutine tid runs the rules in this step
RunsRules(tid) ==
    /\ task'[tid] # task[tid]
    /\ task'[tid].op \in {"analyze", "tick"}
    /\ task[tid].pc # "send_wait"
    /\ task'[tid].suggestions # <<>>

\* C17: the suggestions an analysis returns are those it returns when only
\* the user's min_profit_pct is replaced by any other value.
C17_PctIgnored ==
    [][\A tid \in TaskIds : \A p \in PctVals :
          RunsRules(tid)
          => LET t == task'[tid]
                 stars == IF t.user \in DOMAIN state.settings
                          THEN state.settings[t.user].min_profit_stars ELSE 0
                 other == Put(state.settings, t.user,
                              [min_profit_stars |-> stars, min_profit_pct |-> p])
             IN Rules(t.catalog, t.gifts, t.quotes, MinProfitStars(other, t.user), t.now)
                  = t.suggestions]_vars

\* An analysis under a non-zero percentage of a gift exactly at the threshold.
C17_Witness ==
    \E tid \in Analysed :
        /\ task[tid].user \in DOMAIN state.settings
        /\ state.settings[task[tid].user].min_profit_pct # 0
        /\ task[tid].min > 0
        /\ \E k \in 1..Len(task[tid].suggestions) :
             /\ task[tid].suggestions[k].kind = "convert"
             /\ task[tid].suggestions[k].stars = Some(task[tid].min)

\* C18: an accepted /watch of user a stores exactly the parsed pair as a's
\* settings, leaves a with one timer, a new one, and changes nothing of any
\* other user: settings, timers, connections, chats, cached portfolios.
C18_WatchFrame ==
    [][\A a \in Users, args \in WatchArgs :
          WatchCmd(a, args) /\ MinPctArg(args) # None
          => /\ state'.settings[a] = [min_profit_stars |-> MinStarsArg(args),
                                      min_profit_pct |-> MinPctArg(args)[1]]
             /\ Cardinality(JobsOf(jobs', a)) = 1
             /\ JobsOf(jobs', a) \cap jobs = {}
             /\ \A b \in Users \ {a} :
                  /\ JobsOf(jobs', b) = JobsOf(jobs, b)
                  /\ Get(state'.settings, b) = Get(state.settings, b)
             /\ state'.connections = state.connections
             /\ state'.chats = state.chats
             /\ state'.last_portfolio = state.last_portfolio
             /\ state'.last_catalog = state.last_catalog]_vars

\* /watch of one user after /watch of the other: both timers, both settings.
C18_Witness ==
    \E a, b \in Users :
        /\ a # b
        /\ jobs = {[id |-> 1, name |-> a], [id |-> 2, name |-> b]}
        /\ DOMAIN state.settings = {a, b}
        /\ state.settings[a] # state.settings[b]

\* C19: a tick sends at most one message, and only to the chat bound to its
\* user; a tick that ends without an error for a user with a chat binding
\* has sent exactly one message, carrying its suggestions (the placeholder
\* when no rule fired).
C19_OneMessagePerTick ==
    /\ [](\A u \in Users :
            task[u].op = "tick"
            => /\ Len(task[u].sent) <= 1
               /\ \A k \in 1..Len(task[u].sent) :
                    /\ Some(task[u].sent[k].chat_id) = GetOpt(state.chats, u)
                    /\ \A b \in Users \ {u} :
                         Some(task[u].sent[k].chat_id) # GetOpt(state.chats, b))
    /\ [][\A u \in Users :
            /\ task'[u] # task[u]
            /\ task'[u].op = "tick" /\ task'[u].pc = "done" /\ task'[u].failed = "none"
            /\ GetOpt(state.chats, u) # None
            => /\ Len(task'[u].sent) = 1
               /\ task'[u].sent[1].text = task'[u].suggestions
               /\ task'[u].suggestions # <<>>]_vars

\* A tick of a bound user without a connection: the one message it sent
\* carries the placeholder.
C19_Witness ==
    \E u \in Users :
        /\ task[u].op = "tick" /\ task[u].pc = "done"
        /\ task[u].sent = <<[chat_id |-> ChatOf(u), text |-> <<Placeholder>>]>>

\* C20: every entry of STATE.chats holds a chat id.
C20_ChatsConcrete ==
    \A u \in DOMAIN state.chats : state.chats[u] # None
====
